---------------------------- MODULE Spec2Model ----------------------------
(***************************************************************************)
(* A model of cola/libproject/feasible_projection_algorithm.cpp:           *)
(* projection of scalar variables onto separation constraints              *)
(* x_r - x_l >= g by an active-set method over blocks of variables.        *)
(*                                                                         *)
(* Positions, desired positions and gaps are small integers.  On such      *)
(* values every sum and difference the code forms in double arithmetic is  *)
(* exact, and the one quotient it forms (the step fraction alpha) is kept  *)
(* as a pair <<numerator, denominator>> and compared by cross              *)
(* multiplication, which orders the pairs as the correctly rounded         *)
(* doubles are ordered.  A zero denominator is kept as such, so that a     *)
(* division by zero is visible in the state.                               *)
(***************************************************************************)
EXTENDS Integers, Sequences, FiniteSets

(***************************************************************************)
(* Bounds of the model.                                                    *)
(***************************************************************************)
NumVars == 3
MaxCons == 2
MaxPos == 2
MaxDes == 1
MaxGap == 2
MaxSolves == 2

(***************************************************************************)
(* DBL_MAX, the start value of the running minimum (line 109).  Every      *)
(* finite alpha of the model is far below it.                              *)
(***************************************************************************)
DBL_MAX == 1000000

(***************************************************************************)
(* The NULL constraint pointer (line 108, line 82).  Constraints are       *)
(* named by their index in cs, 1..Len(cs).                                 *)
(***************************************************************************)
NULL == 0

VARIABLES
    vs,        \* Variable objects: vs[v] = [d, x, b, block]
    cs,        \* Constraint objects: cs[c] = [l, r, g, active, lm]
    blocks,    \* the solver's blocks: blocks[i] = [V, C, X, XI]
    inactive,  \* the solver's set of inactive constraints
    order,     \* iteration order of `inactive` (a set of pointers)
    pc,        \* position of the solve
    c,         \* make_optimal's local Constraint *c
    alpha,     \* make_optimal's local double alpha, <<num, den>>
    merges,    \* history: calls of make_active in the current solve
    splits,    \* history: constraints deactivated in the current solve
    solveNo,   \* history: number of the current solve
    prevPos    \* history: positions at the end of the previous solve

vars == <<vs, cs, blocks, inactive, order, pc, c, alpha,
          merges, splits, solveNo, prevPos>>

(***************************************************************************)
(* Helpers on sequences and sets.                                          *)
(***************************************************************************)
SeqsUpTo(S, n) == UNION {[1..k -> S] : k \in 0..n}

Perms(n) == {p \in [1..n -> 1..n] : \A i, j \in 1..n : i # j => p[i] # p[j]}

\* F(e), with e evaluated once.
Bind(e, F(_)) == CHOOSE y \in {F(x) : x \in {e}} : TRUE

VarIds == 1..Len(vs)

ConIds == 1..Len(cs)

(***************************************************************************)
(* The values of alpha.                                                    *)
(***************************************************************************)
One == <<1, 1>>

AlphaMax == <<DBL_MAX, 1>>

Norm(a) == IF a[2] < 0 THEN <<0 - a[1], 0 - a[2]>> ELSE a

IsNaN(a) == a[1] = 0 /\ a[2] = 0

IsUndefined(a) == a[2] = 0

\* a < b on doubles: false when either is NaN; n/0 is an infinity.
Less(a, b) ==
    LET p == Norm(a)
        q == Norm(b)
    IN  IF IsNaN(p) \/ IsNaN(q) THEN FALSE
        ELSE IF p[2] = 0 /\ q[2] = 0 THEN p[1] < 0 /\ q[1] > 0
        ELSE p[1] * q[2] < q[1] * p[2]

(***************************************************************************)
(* Constraint::Constraint registers the constraint with its endpoints:     *)
(* l->out and r->in hold the constraints in construction order.            *)
(***************************************************************************)
NewConstraint(l, r, g) == [l |-> l, r |-> r, g |-> g, active |-> FALSE, lm |-> 0]

IdsWhere(P(_), n) ==
    LET F[i \in 0..n] ==
            IF i = 0 THEN <<>>
            ELSE IF P(i) THEN Append(F[i - 1], i) ELSE F[i - 1]
    IN  F[n]

Out(cst, v) == LET P(i) == cst[i].l = v IN IdsWhere(P, Len(cst))

In(cst, v) == LET P(i) == cst[i].r = v IN IdsWhere(P, Len(cst))

(***************************************************************************)
(* Block::Block(v): the target reference X is v's desired position, the    *)
(* start reference XI is v's current position; v gets offset 0.            *)
(***************************************************************************)
\* NewBlock with the two references exchanged.
NewBlockSwapped(var, v) == [V |-> <<v>>, C |-> {}, X |-> var.x, XI |-> var.d]

NewBlock(var, v) == [V |-> <<v>>, C |-> {}, X |-> var.d, XI |-> var.x]

(***************************************************************************)
(* The position the block structure gives a variable: the start reference  *)
(* of its block plus its offset.                                           *)
(***************************************************************************)
BlockPos(bs, vars_, v) == bs[vars_[v].block].XI + vars_[v].b

Pos(v) == BlockPos(blocks, vs, v)

PosVec == [v \in VarIds |-> Pos(v)]

BlocksBuilt == Len(blocks) > 0

(***************************************************************************)
(* FeasibleProjectionAlgorithm::init_blocks: one block per variable.       *)
(***************************************************************************)
init_blocks_blocks(vars_) == [i \in 1..Len(vars_) |-> NewBlock(vars_[i], i)]

\* init_blocks that points every variable at the first block.
init_blocks_vsFirst(vars_) == [i \in 1..Len(vars_) |-> [vars_[i] EXCEPT !.b = 0, !.block = 1]]

init_blocks_vs(vars_) == [i \in 1..Len(vars_) |-> [vars_[i] EXCEPT !.b = 0, !.block = i]]

(***************************************************************************)
(* MaxSafeAlpha::operator(): the step fraction of one constraint.          *)
(***************************************************************************)
\* SatisfiedAtTarget with the comparison made strict.
SatisfiedAtTargetStrict(bs, vars_, con) ==
    LET Xl == bs[vars_[con.l].block].X
        Xr == bs[vars_[con.r].block].X
        bl == vars_[con.l].b
        br == vars_[con.r].b
    IN  Xl + bl + con.g < Xr + br

SatisfiedAtTarget(bs, vars_, con) ==
    LET Xl == bs[vars_[con.l].block].X
        Xr == bs[vars_[con.r].block].X
        bl == vars_[con.l].b
        br == vars_[con.r].b
    IN  Xl + bl + con.g <= Xr + br

\* Numer with the two start positions exchanged.
NumerSwapped(bs, vars_, con) ==
    LET Al == bs[vars_[con.l].block].XI + vars_[con.l].b
        Ar == bs[vars_[con.r].block].XI + vars_[con.r].b
    IN  con.g + Ar - Al

Numer(bs, vars_, con) ==
    LET Al == bs[vars_[con.l].block].XI + vars_[con.l].b
        Ar == bs[vars_[con.r].block].XI + vars_[con.r].b
    IN  con.g + Al - Ar

Denom(bs, vars_, con) ==
    LET Bl == bs[vars_[con.l].block].X - bs[vars_[con.l].block].XI
        Br == bs[vars_[con.r].block].X - bs[vars_[con.r].block].XI
    IN  Br - Bl

ConAlpha(bs, vars_, con) ==
    IF SatisfiedAtTarget(bs, vars_, con) THEN One
    ELSE <<Numer(bs, vars_, con), Denom(bs, vars_, con)>>

(***************************************************************************)
(* for_each(inactive.begin(), inactive.end(), MaxSafeAlpha(c, alpha)):     *)
(* the constructor sets c = NULL, alpha = DBL_MAX; each constraint with a  *)
(* strictly smaller alpha replaces the running minimum.                    *)
(***************************************************************************)
\* MaxSafeAlpha that never lowers safeAlpha: the last constraint below DBL_MAX wins.
MaxSafeAlphaLast(bs, vars_, cst, inact, ord) ==
    LET F[i \in 0..Len(ord)] ==
            IF i = 0 THEN [c |-> NULL, alpha |-> AlphaMax]
            ELSE LET k == ord[i]
                     a == ConAlpha(bs, vars_, cst[k])
                 IN  IF k \in inact /\ Less(a, AlphaMax)
                     THEN [c |-> k, alpha |-> a]
                     ELSE F[i - 1]
    IN  F[Len(ord)]

MaxSafeAlpha(bs, vars_, cst, inact, ord) ==
    LET F[i \in 0..Len(ord)] ==
            IF i = 0 THEN [c |-> NULL, alpha |-> AlphaMax]
            ELSE LET k == ord[i]
                     a == ConAlpha(bs, vars_, cst[k])
                 IN  IF k \in inact /\ Less(a, F[i - 1].alpha)
                     THEN [c |-> k, alpha |-> a]
                     ELSE F[i - 1]
    IN  F[Len(ord)]

(***************************************************************************)
(* make_active, make_inactive and split_blocks have empty bodies.          *)
(***************************************************************************)
\* make_active that steps the left endpoint's block to its target.
make_activeMoved(st, con, a) ==
    [st EXCEPT !.blocks[st.vs[st.cs[con].l].block].XI =
                   st.blocks[st.vs[st.cs[con].l].block].X]

\* make_active that sets the flag and merges nothing.
make_activeFlagOnly(st, con, a) == [st EXCEPT !.cs[con].active = TRUE]

make_active(st, con, a) == st

make_inactive(st, con) == st

split_blocks(st) == st

\* Erase that empties the set.
EraseAll(S, e) == {}

\* Erase that leaves the element in the set.
EraseNothing(S, e) == S

Erase(S, e) == S \ {e}

(***************************************************************************)
(* The last loop of make_optimal: b->XI = b->X for every block.            *)
(***************************************************************************)
\* FullStep that leaves every block's start reference in place.
FullStepSkipped(bs) == bs

FullStep(bs) == [i \in 1..Len(bs) |-> [bs[i] EXCEPT !.XI = bs[i].X]]

(***************************************************************************)
(* Block::compute_dfdv(v, last): the derivative 2 (x - d) at v plus the    *)
(* multipliers of the active constraints at v other than `last`, each set  *)
(* by the recursive call at its other endpoint: v's outgoing constraints   *)
(* first, then its incoming ones.  The value is the pair of the returned   *)
(* double and the constraints with the multipliers written so far.         *)
(***************************************************************************)
RECURSIVE compute_dfdv(_, _, _, _)
RECURSIVE dfdv_out(_, _, _, _, _, _)
RECURSIVE dfdv_in(_, _, _, _, _, _)

dfdv_out(vars_, cst, v, last, i, acc) ==
    LET lst == Out(cst, v)
        Rec(sub) == dfdv_out(vars_, [sub.cs EXCEPT ![lst[i]].lm = sub.dfdv],
                             v, last, i + 1, acc + sub.dfdv)
    IN  IF i > Len(lst) THEN [dfdv |-> acc, cs |-> cst]
        ELSE IF lst[i] # last /\ cst[lst[i]].active
             THEN Bind(compute_dfdv(vars_, cst, cst[lst[i]].r, lst[i]), Rec)
             ELSE dfdv_out(vars_, cst, v, last, i + 1, acc)

\* dfdv_in that stores the returned sum without negating it.
dfdv_inUnsigned(vars_, cst, v, last, i, acc) ==
    LET lst == In(cst, v)
        Rec(sub) == dfdv_in(vars_, [sub.cs EXCEPT ![lst[i]].lm = sub.dfdv],
                            v, last, i + 1, acc + sub.dfdv)
    IN  IF i > Len(lst) THEN [dfdv |-> acc, cs |-> cst]
        ELSE IF lst[i] # last /\ cst[lst[i]].active
             THEN Bind(compute_dfdv(vars_, cst, cst[lst[i]].l, lst[i]), Rec)
             ELSE dfdv_in(vars_, cst, v, last, i + 1, acc)

dfdv_in(vars_, cst, v, last, i, acc) ==
    LET lst == In(cst, v)
        Rec(sub) == dfdv_in(vars_, [sub.cs EXCEPT ![lst[i]].lm = 0 - sub.dfdv],
                            v, last, i + 1, acc - (0 - sub.dfdv))
    IN  IF i > Len(lst) THEN [dfdv |-> acc, cs |-> cst]
        ELSE IF lst[i] # last /\ cst[lst[i]].active
             THEN Bind(compute_dfdv(vars_, cst, cst[lst[i]].l, lst[i]), Rec)
             ELSE dfdv_in(vars_, cst, v, last, i + 1, acc)

\* compute_dfdv with the derivative x - d in place of 2 (x - d).
compute_dfdvHalved(vars_, cst, v, last) ==
    LET Ins(o) == dfdv_in(vars_, o.cs, v, last, 1, o.dfdv)
    IN  Bind(dfdv_out(vars_, cst, v, last, 1, vars_[v].x - vars_[v].d), Ins)

compute_dfdv(vars_, cst, v, last) ==
    LET Ins(o) == dfdv_in(vars_, o.cs, v, last, 1, o.dfdv)
    IN  Bind(dfdv_out(vars_, cst, v, last, 1, 2 * (vars_[v].x - vars_[v].d)), Ins)

(***************************************************************************)
(* Block::computeLagrangians: reset the multipliers of the block's         *)
(* constraints C, then compute_dfdv from the first member.                 *)
(***************************************************************************)
reset_lm(cst, C) == [k \in 1..Len(cst) |-> IF k \in C THEN [cst[k] EXCEPT !.lm = 0] ELSE cst[k]]

computeLagrangians(vars_, cst, blk) ==
    LET Walk(zeroed) == compute_dfdv(vars_, zeroed, blk.V[1], NULL).cs
    IN  Bind(reset_lm(cst, blk.C), Walk)

(***************************************************************************)
(* The initial states: a solver constructed over caller-built variables    *)
(* and constraints, in a configuration that satisfies every constraint.    *)
(***************************************************************************)
VarPool == [d : 0..MaxDes, x : 0..MaxPos, b : {0}, block : {0}]

ConPool(n) == {NewConstraint(l, r, g) : l \in 1..n, r \in 1..n, g \in 0..MaxGap}

Feasible(xs, cst) == \A k \in 1..Len(cst) : xs[cst[k].r] - xs[cst[k].l] >= cst[k].g

\* The constructor's inactive(cs.begin(), cs.end()): every constraint.
NewSolverInactive(cst) == 1..Len(cst)

Init ==
    /\ vs \in SeqsUpTo(VarPool, NumVars)
    /\ Len(vs) >= 1
    /\ cs \in SeqsUpTo(ConPool(Len(vs)), MaxCons)
    /\ \A k \in 1..Len(cs) : cs[k].l # cs[k].r
    /\ Feasible([v \in 1..Len(vs) |-> vs[v].x], cs)
    /\ order \in Perms(Len(cs))
    /\ blocks = <<>>
    /\ inactive = NewSolverInactive(cs)
    /\ pc = "constructed"
    /\ c = NULL
    /\ alpha = AlphaMax
    /\ merges = 0
    /\ splits = 0
    /\ solveNo = 1
    /\ prevPos = <<>>

\* The objects the solver's operations read and write.
SolverState == [vs |-> vs, cs |-> cs, blocks |-> blocks, inactive |-> inactive]

InitBlocks ==
    /\ pc = "constructed"
    /\ blocks' = init_blocks_blocks(vs)
    /\ vs' = init_blocks_vs(vs)
    /\ pc' = "phase1"
    /\ UNCHANGED <<cs, inactive, order, c, alpha, merges, splits, solveNo, prevPos>>

\* make_optimal, up to the first test of its loop.
MakeOptimalEnter ==
    /\ pc = "phase1"
    /\ \E m \in {MaxSafeAlpha(blocks, vs, cs, inactive, order)} :
           c' = m.c /\ alpha' = m.alpha
    /\ pc' = "loop"
    /\ UNCHANGED <<vs, cs, blocks, inactive, order, merges, splits, solveNo, prevPos>>

\* One iteration of make_optimal's loop.
MakeOptimalActivate ==
    /\ pc = "loop"
    /\ Less(alpha, One)
    /\ merges <= Len(cs)
    /\ \E st \in {make_active(SolverState, c, alpha)} :
           \E inact \in {Erase(st.inactive, c)} :
               \E m \in {MaxSafeAlpha(st.blocks, st.vs, st.cs, inact, order)} :
                   /\ vs' = st.vs
                   /\ cs' = st.cs
                   /\ blocks' = st.blocks
                   /\ inactive' = inact
                   /\ c' = m.c
                   /\ alpha' = m.alpha
    /\ merges' = merges + 1
    /\ UNCHANGED <<order, pc, splits, solveNo, prevPos>>

\* The end of make_optimal, once alpha < 1 is false.
MakeOptimalFullStep ==
    /\ pc = "loop"
    /\ ~Less(alpha, One)
    /\ blocks' = FullStep(blocks)
    /\ pc' = "phase2"
    /\ UNCHANGED <<vs, cs, inactive, order, c, alpha, merges, splits, solveNo, prevPos>>

(***************************************************************************)
(* Phase 2 of the outer cycle: the multipliers of every block, then        *)
(* split_blocks; a split sends the solve back to Phase 1, no split ends    *)
(* it.                                                                     *)
(***************************************************************************)
RECURSIVE AllLagrangians(_, _, _, _)
AllLagrangians(vars_, cst, bs, i) ==
    LET Rest(done) == AllLagrangians(vars_, done, bs, i + 1)
    IN  IF i > Len(bs) THEN cst
        ELSE Bind(computeLagrangians(vars_, cst, bs[i]), Rest)

Deactivated(before, after) == {k \in 1..Len(before) : before[k].active /\ ~after[k].active}

Phase2Multipliers ==
    /\ pc = "phase2"
    /\ \E ncs \in {AllLagrangians(vs, cs, blocks, 1)} : cs' = ncs
    /\ pc' = "split"
    /\ UNCHANGED <<vs, blocks, inactive, order, c, alpha, merges, splits, solveNo, prevPos>>

Phase2Split ==
    /\ pc = "split"
    /\ \E st \in {split_blocks(SolverState)} :
           \E gone \in {Deactivated(cs, st.cs)} :
               /\ vs' = st.vs
               /\ cs' = st.cs
               /\ blocks' = st.blocks
               /\ inactive' = st.inactive
               /\ splits' = splits + Cardinality(gone)
               /\ pc' = IF gone # {} THEN "phase1" ELSE "done"
    /\ UNCHANGED <<order, c, alpha, merges, solveNo, prevPos>>

(***************************************************************************)
(* A further solve of the same variables and constraints: the solver is    *)
(* destroyed and a new one constructed, which takes every constraint as    *)
(* inactive and builds its blocks from the variables' fields.              *)
(***************************************************************************)
Resolve ==
    /\ pc = "done"
    /\ solveNo < MaxSolves
    /\ blocks' = <<>>
    /\ inactive' = NewSolverInactive(cs)
    /\ pc' = "constructed"
    /\ c' = NULL
    /\ alpha' = AlphaMax
    /\ merges' = 0
    /\ splits' = 0
    /\ solveNo' = solveNo + 1
    /\ prevPos' = PosVec
    /\ UNCHANGED <<vs, cs, order>>

Next ==
    \/ Phase2Multipliers
    \/ Phase2Split
    \/ Resolve
    \/ InitBlocks
    \/ MakeOptimalEnter
    \/ MakeOptimalActivate
    \/ MakeOptimalFullStep

Spec == Init /\ [][Next]_vars

FairSpec == Spec /\ WF_vars(Next)

(***************************************************************************)
(* The objective: the sum of squared deviations from the desired           *)
(* positions.                                                              *)
(***************************************************************************)
Obj(p) ==
    LET F[i \in 0..Len(vs)] ==
            IF i = 0 THEN 0
            ELSE F[i - 1] + (p[i] - vs[i].d) * (p[i] - vs[i].d)
    IN  F[Len(vs)]

StoredX == [v \in VarIds |-> vs[v].x]

Desired == [v \in VarIds |-> vs[v].d]

Ends(k) == <<cs[k].l, cs[k].r, cs[k].g>>

(***************************************************************************)
(* C1.  Feasibility invariant: once the blocks are built, after every step *)
(* of Phase 1 (each activation and the full step) every constraint, active *)
(* or not, has right.position - left.position >= gap.                      *)
(***************************************************************************)
C1_FeasibilityInvariant ==
    BlocksBuilt => \A k \in ConIds : Pos(cs[k].r) - Pos(cs[k].l) >= cs[k].g

(***************************************************************************)
(* C2.  Projection result: at convergence the positions satisfy every      *)
(* constraint and no feasible assignment has a smaller sum of squared      *)
(* deviations; x2 - x1 >= 2 with desired [0, 0] ends at [-1, 1] with the   *)
(* constraint active, and the chain x2 - x1 >= 1, x3 - x2 >= 1 with        *)
(* desired [0, 0, 0] ends at [-1, 0, 1] with both constraints active.      *)
(***************************************************************************)
C2_ProjectionResult ==
    pc = "done" =>
        /\ Feasible(PosVec, cs)
        /\ \A q \in [VarIds -> (0 - 1)..(MaxPos + 1)] :
               Feasible(q, cs) => Obj(PosVec) <= Obj(q)
        /\ (Len(vs) = 2 /\ Len(cs) = 1 /\ Ends(1) = <<1, 2, 2>> /\ Desired = <<0, 0>>)
               => (PosVec = <<0 - 1, 1>> /\ cs[1].active)
        /\ (/\ Len(vs) = 3 /\ Len(cs) = 2 /\ Desired = <<0, 0, 0>>
            /\ Ends(1) = <<1, 2, 1>> /\ Ends(2) = <<2, 3, 1>>)
               => (PosVec = <<0 - 1, 0, 1>> /\ cs[1].active /\ cs[2].active)

(***************************************************************************)
(* C3.  Optimality at convergence: when the solve has terminated, every    *)
(* active constraint has multiplier >= 0 and every constraint that is not  *)
(* active has right.position - left.position >= gap.                       *)
(***************************************************************************)
C3_OptimalityAtConvergence ==
    pc = "done" =>
        \A k \in ConIds :
            /\ cs[k].active => cs[k].lm >= 0
            /\ ~cs[k].active => Pos(cs[k].r) - Pos(cs[k].l) >= cs[k].g

(***************************************************************************)
(* C4.  Termination: every solve that is started reaches the converged     *)
(* state; the merge and split events of a solve number at most the         *)
(* constraints, and each event strictly lowers the number of inactive      *)
(* constraints.                                                            *)
(***************************************************************************)
Events == merges + splits

C4_Termination ==
    /\ [](pc = "constructed" => <>(pc = "done"))
    /\ [](Events <= Len(cs))
    /\ [][Events' > Events => Cardinality(inactive') < Cardinality(inactive)]_vars

C4_Witness == pc = "done" /\ Len(cs) = MaxCons /\ merges = Len(cs)

(***************************************************************************)
(* C5.  Idempotence: a solve run again after a converged solve, on the     *)
(* same desired positions, leaves every position where the previous solve  *)
(* put it and performs no merge and no split.                              *)
(***************************************************************************)
C5_Idempotence ==
    (solveNo > 1 /\ BlocksBuilt) => (merges = 0 /\ splits = 0 /\ PosVec = prevPos)

(***************************************************************************)
(* C6.  Monotone progress: no step of a solve increases the sum of squared *)
(* deviations from the desired positions, and the converged configuration  *)
(* has an objective no larger than the initial feasible one.               *)
(***************************************************************************)
C6_MonotoneProgress ==
    /\ [][(BlocksBuilt /\ BlocksBuilt') => Obj(PosVec') <= Obj(PosVec)]_vars
    /\ [](pc = "done" => Obj(PosVec) <= Obj(StoredX))

C6_Witness == pc = "done" /\ merges > 0 /\ Obj(PosVec) < Obj(StoredX)

(***************************************************************************)
(* C7.  Numerical degeneracy: an inactive constraint whose two blocks move *)
(* by the same amount (Br - Bl = 0) has alpha = 1, is never the constraint *)
(* that the loop activates, and no alpha is the result of a division by    *)
(* zero.                                                                   *)
(***************************************************************************)
C7_NumericalDegeneracy ==
    BlocksBuilt =>
        /\ ~IsUndefined(alpha)
        /\ \A k \in inactive :
               /\ ~IsUndefined(ConAlpha(blocks, vs, cs[k]))
               /\ Denom(blocks, vs, cs[k]) = 0 =>
                      /\ ConAlpha(blocks, vs, cs[k]) = One
                      /\ ~(pc = "loop" /\ c = k /\ Less(alpha, One))

C7_Witness ==
    /\ pc = "loop"
    /\ \E k \in inactive :
           /\ Denom(blocks, vs, cs[k]) = 0
           /\ blocks[vs[cs[k].l].block].X # blocks[vs[cs[k].l].block].XI
           /\ Pos(cs[k].r) - Pos(cs[k].l) = cs[k].g

(***************************************************************************)
(* C8.  Position invariant: once the blocks are built, every variable's    *)
(* position equals the reference of its block plus its offset.             *)
(***************************************************************************)
C8_PositionInvariant ==
    BlocksBuilt => \A v \in VarIds : vs[v].x = Pos(v)

(***************************************************************************)
(* C9.  No constraints: with an empty constraint set a solve performs no   *)
(* activation, merge or split and ends with every variable at its desired  *)
(* position.                                                               *)
(***************************************************************************)
C9_NoConstraints ==
    Len(cs) = 0 =>
        /\ merges = 0
        /\ splits = 0
        /\ c = NULL
        /\ pc = "done" => PosVec = Desired

C9_Witness ==
    /\ pc = "done"
    /\ Len(cs) = 0
    /\ Len(vs) = 2
    /\ StoredX = <<2, 0>>
    /\ Desired = <<1, 0>>

(***************************************************************************)
(* A second specification, for the operations on blocks of several         *)
(* variables: its initial states are blocks held together by trees of      *)
(* active constraints, every active constraint tight and every other one   *)
(* satisfied, as they stand at the start of Phase 2; its steps are those   *)
(* of Phase 2.                                                             *)
(***************************************************************************)
ActiveIds(cst) == {k \in 1..Len(cst) : cst[k].active}

RECURSIVE Component(_, _)
Component(cst, S) ==
    LET N == S \cup {cst[k].r : k \in {j \in ActiveIds(cst) : cst[j].l \in S}}
               \cup {cst[k].l : k \in {j \in ActiveIds(cst) : cst[j].r \in S}}
    IN  IF N = S THEN S ELSE Component(cst, N)

Components(cst, n) == {Component(cst, {v}) : v \in 1..n}

IsForest(cst, n) ==
    Cardinality(ActiveIds(cst)) = n - Cardinality(Components(cst, n))

\* The members of S in the order of the permutation p.
InOrder(p, S) == SelectSeq(p, LAMBDA v : v \in S)

\* The blocks of the components, in the order p meets them.
RECURSIVE BlocksOf(_, _, _, _)
BlocksOf(cst, xs, p, i) ==
    IF i > Len(p) THEN <<>>
    ELSE LET comp == Component(cst, {p[i]})
             first == InOrder(p, comp)[1]
         IN  IF first # p[i] THEN BlocksOf(cst, xs, p, i + 1)
             ELSE <<[V |-> InOrder(p, comp),
                     C |-> {k \in ActiveIds(cst) : cst[k].l \in comp},
                     X |-> xs[first],
                     XI |-> xs[first]]>> \o BlocksOf(cst, xs, p, i + 1)

BlockIndex(bs, v) == CHOOSE i \in 1..Len(bs) : \E j \in 1..Len(bs[i].V) : bs[i].V[j] = v

LagConPool(n) ==
    {[l |-> l, r |-> r, g |-> g, active |-> a, lm |-> 0] :
        l \in 1..n, r \in 1..n, g \in 0..MaxGap, a \in BOOLEAN}

InitLag ==
    /\ \E raw \in SeqsUpTo([d : 0..MaxDes, x : 0..MaxPos], NumVars) :
       \E p \in Perms(Len(raw)) :
           /\ Len(raw) >= 1
           /\ cs \in SeqsUpTo(LagConPool(Len(raw)), MaxCons)
           /\ \A k \in 1..Len(cs) : cs[k].l # cs[k].r
           /\ Feasible([v \in 1..Len(raw) |-> raw[v].x], cs)
           /\ \A k \in ActiveIds(cs) : raw[cs[k].r].x - raw[cs[k].l].x = cs[k].g
           /\ IsForest(cs, Len(raw))
           /\ blocks = BlocksOf(cs, [v \in 1..Len(raw) |-> raw[v].x], p, 1)
           /\ vs = [v \in 1..Len(raw) |->
                       [d |-> raw[v].d, x |-> raw[v].x,
                        b |-> raw[v].x - blocks[BlockIndex(blocks, v)].XI,
                        block |-> BlockIndex(blocks, v)]]
    /\ inactive = (1..Len(cs)) \ ActiveIds(cs)
    /\ order = [i \in 1..Len(cs) |-> i]
    /\ pc = "phase2"
    /\ c = NULL
    /\ alpha = AlphaMax
    /\ merges = 0
    /\ splits = 0
    /\ solveNo = 1
    /\ prevPos = <<>>

NextLag ==
    \/ Phase2Multipliers
    \/ Phase2Split

LagSpec == InitLag /\ [][NextLag]_vars

(***************************************************************************)
(* C10.  Split on negative multiplier: when Phase 2 has found an active    *)
(* constraint with a negative multiplier, the split step deactivates every *)
(* such constraint and returns it to inactive, leaves more blocks than     *)
(* before, moves no variable, and sends the solve back to Phase 1.         *)
(***************************************************************************)
NegativeIds == {k \in ActiveIds(cs) : cs[k].lm < 0}

C10_SplitOnNegativeMultiplier ==
    [][(pc = "split" /\ NegativeIds # {}) =>
           /\ \A k \in NegativeIds : ~cs'[k].active /\ k \in inactive'
           /\ Len(blocks') > Len(blocks)
           /\ PosVec' = PosVec
           /\ pc' = "phase1"]_vars

(***************************************************************************)
(* make_optimal as a function of the solver's objects and of the order in  *)
(* which the set `inactive` is iterated: the scan, the loop while          *)
(* alpha < 1, then the full step.                                          *)
(***************************************************************************)
RECURSIVE make_optimal_loop(_, _, _, _)
make_optimal_loop(st, ord, m, n) ==
    IF Less(m.alpha, One) /\ n <= Len(st.cs)
    THEN LET act == make_active(st, m.c, m.alpha)
             nxt == [act EXCEPT !.inactive = Erase(act.inactive, m.c)]
         IN  make_optimal_loop(nxt, ord,
                 MaxSafeAlpha(nxt.blocks, nxt.vs, nxt.cs, nxt.inactive, ord), n + 1)
    ELSE [st EXCEPT !.blocks = FullStep(st.blocks)]

make_optimal(st, ord) ==
    make_optimal_loop(st, ord,
        MaxSafeAlpha(st.blocks, st.vs, st.cs, st.inactive, ord), 0)

\* The solver's objects after the constructor and init_blocks.
Phase1Start ==
    [vs |-> init_blocks_vs(vs), cs |-> cs,
     blocks |-> init_blocks_blocks(vs), inactive |-> NewSolverInactive(cs)]

\* What a solve converges to: the partition, the positions, the inactive set.
Converged(st) ==
    [partition |-> {{st.blocks[i].V[j] : j \in 1..Len(st.blocks[i].V)} :
                        i \in 1..Len(st.blocks)},
     pos |-> [v \in 1..Len(st.vs) |-> BlockPos(st.blocks, st.vs, v)],
     inactive |-> st.inactive]

\* The constraints some iteration order selects first, at an alpha below 1.
FirstChoices(st) ==
    {m.c : m \in {sel \in {MaxSafeAlpha(st.blocks, st.vs, st.cs, st.inactive, o) :
                               o \in Perms(Len(st.cs))} : Less(sel.alpha, One)}}

(***************************************************************************)
(* C11.  Tie-break independence: whichever of the constraints tied for     *)
(* the minimum alpha the iteration order of `inactive` selects first,      *)
(* make_optimal ends with the same block partition, the same positions     *)
(* and the same inactive set, and the run under the order in force ends    *)
(* there too.                                                              *)
(***************************************************************************)
C11_TieBreakIndependence ==
    /\ pc = "phase1" =>
           /\ SolverState = Phase1Start
           /\ \A o \in Perms(Len(cs)) :
                  Converged(make_optimal(SolverState, o))
                      = Converged(make_optimal(SolverState, order))
    /\ pc = "phase2" =>
           \A o \in Perms(Len(cs)) :
               Converged(SolverState) = Converged(make_optimal(Phase1Start, o))

C11_Witness ==
    /\ pc = "phase2"
    /\ Cardinality(FirstChoices(Phase1Start)) > 1
    /\ Ends(1) # Ends(2)
    /\ merges = 2

(***************************************************************************)
(* C12.  Inactive-set invariant: a constraint is in `inactive` exactly     *)
(* when its active flag is false; a constraint the loop has activated is   *)
(* out of `inactive` and has active = true.                                *)
(***************************************************************************)
C12_InactiveSetInvariant ==
    \A k \in ConIds : (k \in inactive) <=> ~cs[k].active

\* The variables of block i, and the active constraints whose left end is in it.
Members(bs, i) == {bs[i].V[j] : j \in 1..Len(bs[i].V)}

TreeOf(vars_, cst, i) == {k \in ActiveIds(cst) : vars_[cst[k].l].block = i}

(***************************************************************************)
(* C13.  Active-tree invariant: every constraint with active = true has    *)
(* both endpoints in one block, and the active constraints of each block   *)
(* form a spanning tree of its members: |members| - 1 of them, connecting  *)
(* every member.                                                           *)
(***************************************************************************)
C13_ActiveTreeInvariant ==
    BlocksBuilt =>
        /\ \A k \in ActiveIds(cs) : vs[cs[k].l].block = vs[cs[k].r].block
        /\ \A i \in 1..Len(blocks) :
               /\ Cardinality(TreeOf(vs, cs, i)) = Cardinality(Members(blocks, i)) - 1
               /\ Component(cs, {blocks[i].V[1]}) = Members(blocks, i)

C13_Witness ==
    /\ pc = "split"
    /\ merges = 2
    /\ Len(blocks) = 3
    /\ inactive = {}
    /\ Ends(1) = <<1, 2, 0>>
    /\ Ends(2) = <<3, 2, 0>>

(***************************************************************************)
(* C14.  Partition invariant: once init_blocks has run, and after every    *)
(* later operation, each variable is a member of exactly one block, once,  *)
(* and its block reference designates that block; straight after           *)
(* init_blocks every block is a singleton whose member has offset 0 and    *)
(* whose start reference is the member's current position.                 *)
(***************************************************************************)
C14_PartitionInvariant ==
    /\ BlocksBuilt =>
           /\ \A v \in VarIds :
                  /\ Cardinality({i \in 1..Len(blocks) : v \in Members(blocks, i)}) = 1
                  /\ vs[v].block \in 1..Len(blocks)
                  /\ v \in Members(blocks, vs[v].block)
           /\ \A i \in 1..Len(blocks) :
                  /\ Len(blocks[i].V) = Cardinality(Members(blocks, i))
                  /\ Members(blocks, i) \subseteq VarIds
    /\ pc = "phase1" =>
           \A i \in 1..Len(blocks) :
               /\ Len(blocks[i].V) = 1
               /\ vs[blocks[i].V[1]].b = 0
               /\ blocks[i].XI = vs[blocks[i].V[1]].x

C14_Witness ==
    /\ pc = "done"
    /\ merges = 1
    /\ Len(blocks) = 3
    /\ StoredX = <<2, 1, 0>>
    /\ solveNo = 2

(***************************************************************************)
(* C15.  Merge and split preserve positions: the step that activates a     *)
(* constraint (the merge) and the split step of Phase 2 leave the          *)
(* position of every variable, its stored position and its desired         *)
(* position as they were.                                                  *)
(***************************************************************************)
C15_MergeSplitPreservePositions ==
    [][(merges' > merges \/ pc = "split") =>
           /\ PosVec' = PosVec
           /\ StoredX' = StoredX
           /\ Desired' = Desired]_vars

C15_Witness ==
    /\ pc = "loop"
    /\ merges = 1
    /\ Len(vs) = 2
    /\ PosVec = <<1, 1>>
    /\ Desired = <<1, 0>>
    /\ inactive = {}

\* The slack of constraint k at the start-of-step and at the full-step positions.
StartSlack(k) == Pos(cs[k].r) - Pos(cs[k].l) - cs[k].g

TargetPos(v) == blocks[vs[v].block].X + vs[v].b

TargetSlack(k) == TargetPos(cs[k].r) - TargetPos(cs[k].l) - cs[k].g

\* The fractions p/q of a step, 0 <= p/q <= 1, with q up to MaxDenominator.
MaxDenominator == 4

Fractions == {<<p, q>> \in (0..MaxDenominator) \X (1..MaxDenominator) : p <= q}

\* q times the slack of constraint k at the positions interpolated at f = p/q.
SlackAt(k, f) == (f[2] - f[1]) * StartSlack(k) + f[1] * TargetSlack(k)

(***************************************************************************)
(* C16.  Safe-step value: for every inactive constraint satisfied at the   *)
(* start-of-step positions the computed alpha is a number in [0, 1]; it    *)
(* is 1 exactly when the constraint is satisfied at the full-step          *)
(* positions; otherwise it is (gap + Al - Ar) / (Br - Bl), the constraint  *)
(* is tight at the positions interpolated at alpha, and a fraction of the  *)
(* step keeps the constraint satisfied exactly when it is at most alpha.   *)
(***************************************************************************)
C16_SafeStepValue ==
    BlocksBuilt =>
        \A k \in inactive :
            StartSlack(k) >= 0 =>
                \E a \in {ConAlpha(blocks, vs, cs[k])} :
                    /\ ~IsUndefined(a)
                    /\ ~Less(a, <<0, 1>>)
                    /\ ~Less(One, a)
                    /\ (~Less(a, One)) <=> (TargetSlack(k) >= 0)
                    /\ TargetSlack(k) < 0 =>
                           /\ a[1] * (TargetSlack(k) - StartSlack(k))
                                  = a[2] * (0 - StartSlack(k))
                           /\ SlackAt(k, Norm(a)) = 0
                           /\ \A f \in Fractions :
                                  (SlackAt(k, f) >= 0) <=> ~Less(a, f)

C16_Witness ==
    /\ pc = "loop"
    /\ merges = 0
    /\ \E k \in inactive :
           /\ StartSlack(k) = 1
           /\ TargetSlack(k) = 0 - 1
           /\ Norm(ConAlpha(blocks, vs, cs[k])) = <<1, 2>>
           /\ c = k

(***************************************************************************)
(* C17.  Phase-1 merge loop: every iteration of make_optimal's loop        *)
(* activates a constraint of `inactive` whose alpha is below 1 and is the  *)
(* minimum over `inactive`, and removes that constraint and no other from  *)
(* `inactive`; a solve makes at most |constraints| activations; a scan of  *)
(* an empty `inactive` selects no constraint and the loop exits without    *)
(* an activation; make_optimal, once entered, reaches its end.             *)
(***************************************************************************)
C17_Phase1MergeLoop ==
    /\ [][merges' = merges + 1 =>
              /\ c \in inactive
              /\ Less(alpha, One)
              /\ alpha = ConAlpha(blocks, vs, cs[c])
              /\ \A k \in inactive : ~Less(ConAlpha(blocks, vs, cs[k]), alpha)
              /\ inactive' = inactive \ {c}
              /\ Cardinality(inactive') = Cardinality(inactive) - 1]_vars
    /\ [](merges <= Len(cs))
    /\ []((pc = "loop" /\ inactive = {}) =>
              (c = NULL /\ alpha = AlphaMax /\ ~Less(alpha, One)))
    /\ [][(pc = "loop" /\ inactive = {}) => (pc' = "phase2" /\ merges' = merges)]_vars
    /\ (pc = "phase1") ~> (pc = "phase2")

C17_Witness ==
    /\ pc = "phase2"
    /\ merges = 1
    /\ Len(cs) = 2
    /\ inactive = {2}
    /\ Ends(1) # Ends(2)
    /\ order = <<2, 1>>

(***************************************************************************)
(* The constraints compute_dfdv(v, last) assigns, in the order of its      *)
(* assignments: at v, each active outgoing constraint other than `last`    *)
(* after the call at its right end, then each active incoming one after    *)
(* the call at its left end.                                               *)
(***************************************************************************)
RECURSIVE Visited(_, _, _)
Visited(cst, v, last) ==
    LET outs == SelectSeq(Out(cst, v), LAMBDA k : k # last /\ cst[k].active)
        ins == SelectSeq(In(cst, v), LAMBDA k : k # last /\ cst[k].active)
        O[i \in 0..Len(outs)] ==
            IF i = 0 THEN <<>>
            ELSE O[i - 1] \o Visited(cst, cst[outs[i]].r, outs[i]) \o <<outs[i]>>
        I[i \in 0..Len(ins)] ==
            IF i = 0 THEN <<>>
            ELSE I[i - 1] \o Visited(cst, cst[ins[i]].l, ins[i]) \o <<ins[i]>>
    IN  O[Len(outs)] \o I[Len(ins)]

\* The variables joined to v by active constraints other than k.
Side(cst, k, v) == Component([cst EXCEPT ![k].active = FALSE], {v})

\* The sum of 2 (x - d) over the variables of S.
RECURSIVE SumDfdv(_, _)
SumDfdv(vars_, S) ==
    IF S = {} THEN 0
    ELSE LET v == CHOOSE u \in S : TRUE
         IN  2 * (vars_[v].x - vars_[v].d) + SumDfdv(vars_, S \ {v})

\* The multiplier of the tree edge k when the walk starts at root.
TreeMultiplier(vars_, cst, k, root) ==
    IF root \in Side(cst, k, cst[k].l)
    THEN SumDfdv(vars_, Side(cst, k, cst[k].r))
    ELSE 0 - SumDfdv(vars_, Side(cst, k, cst[k].l))

(***************************************************************************)
(* C18.  Multiplier computation: for a block whose active constraints      *)
(* form a tree, computeLagrangians ends, assigns every active constraint   *)
(* of the block exactly once, changes no position, offset, block or        *)
(* active flag and no constraint outside the block, and leaves on an edge  *)
(* walked from its left end the sum of 2 (position - desired) over the     *)
(* variables on its right end's side, and on an edge walked from its       *)
(* right end the negation of that sum over its left end's side.            *)
(***************************************************************************)
C18_MultiplierComputation ==
    /\ [](pc = "phase2" =>
             \A i \in 1..Len(blocks) :
                 \E res \in {computeLagrangians(vs, cs, blocks[i])} :
                 \E seen \in {Visited(cs, blocks[i].V[1], NULL)} :
                     /\ Len(seen) = Cardinality(TreeOf(vs, cs, i))
                     /\ {seen[j] : j \in 1..Len(seen)} = TreeOf(vs, cs, i)
                     /\ \A k \in ConIds :
                            /\ [res[k] EXCEPT !.lm = 0] = [cs[k] EXCEPT !.lm = 0]
                            /\ k \notin TreeOf(vs, cs, i) => res[k] = cs[k]
                            /\ k \in TreeOf(vs, cs, i) =>
                                   res[k].lm = TreeMultiplier(vs, cs, k, blocks[i].V[1]))
    /\ [](pc = "split" =>
             \A i \in 1..Len(blocks) :
                 \A k \in TreeOf(vs, cs, i) :
                     cs[k].lm = TreeMultiplier(vs, cs, k, blocks[i].V[1]))
    /\ [][pc = "phase2" =>
              /\ vs' = vs
              /\ blocks' = blocks
              /\ PosVec' = PosVec
              /\ \A k \in ConIds : [cs'[k] EXCEPT !.lm = 0] = [cs[k] EXCEPT !.lm = 0]]_vars

C18_Witness ==
    /\ pc = "split"
    /\ \E i \in 1..Len(blocks) :
       \E k1, k2 \in TreeOf(vs, cs, i) :
           /\ Len(blocks[i].V) = 3
           /\ blocks[i].V[1] = cs[k1].r
           /\ blocks[i].V[1] = cs[k2].l
           /\ cs[k1].lm = 0 - SumDfdv(vs, {cs[k1].l})
           /\ cs[k1].lm > 0
           /\ cs[k2].lm = SumDfdv(vs, {cs[k2].r})
           /\ cs[k2].lm < 0

(***************************************************************************)
(* Block::optBlockPos: the sum of d - b over the block's variables,        *)
(* divided by their number; the value is the pair <<sum, |V|>>.            *)
(***************************************************************************)
sum_posdiff(acc, var) == acc + (var.d - var.b)

optBlockPos(vars_, blk) ==
    LET acc[j \in 0..Len(blk.V)] ==
            IF j = 0 THEN 0 ELSE sum_posdiff(acc[j - 1], vars_[blk.V[j]])
    IN  <<acc[Len(blk.V)], Len(blk.V)>>

(***************************************************************************)
(* C19.  Full step: when the minimum alpha is not below 1, make_optimal    *)
(* ends with the reference X of every block equal to the block's optimal   *)
(* position, the mean of desired - offset over its members, and with the   *)
(* start reference XI equal to X.                                          *)
(***************************************************************************)
C19_FullStep ==
    pc = "phase2" =>
        /\ ~Less(alpha, One)
        /\ \A i \in 1..Len(blocks) :
               \E opt \in {optBlockPos(vs, blocks[i])} :
                   /\ opt[2] > 0
                   /\ blocks[i].X * opt[2] = opt[1]
                   /\ blocks[i].XI = blocks[i].X

C19_Witness ==
    /\ pc = "phase2"
    /\ merges = 1
    /\ Len(cs) = 2
    /\ StoredX = <<0, 1, 2>>
    /\ Desired = <<1, 0, 1>>
    /\ [i \in 1..Len(blocks) |-> blocks[i].XI] = <<1, 0, 1>>

\* Block i with member v moved to the front of V: the walk starts at v.
RootedAt(blk, v) ==
    [blk EXCEPT !.V = <<v>> \o SelectSeq(blk.V, LAMBDA u : u # v)]

\* Block i is at its optimal reference: position - desired sums to 0 over it.
AtOptimalReference(i) == SumDfdv(vs, Members(blocks, i)) = 0

(***************************************************************************)
(* C20.  Root independence of the multipliers: for a block at its optimal  *)
(* reference, where position - desired sums to 0 over the members,         *)
(* computeLagrangians leaves the same multiplier on every active edge of   *)
(* the block whichever member the walk starts from, and that multiplier    *)
(* is the sum of 2 (position - desired) over the variables on the right    *)
(* end's side of the edge.                                                 *)
(***************************************************************************)
C20_RootIndependence ==
    /\ pc = "phase2" =>
           \A i \in 1..Len(blocks) :
               AtOptimalReference(i) =>
                   \A root \in Members(blocks, i) :
                       \E res \in {computeLagrangians(vs, cs, RootedAt(blocks[i], root))} :
                           \A k \in TreeOf(vs, cs, i) :
                               /\ res[k].lm = computeLagrangians(vs, cs, blocks[i])[k].lm
                               /\ res[k].lm = SumDfdv(vs, Side(cs, k, cs[k].r))
    /\ pc = "split" =>
           \A i \in 1..Len(blocks) :
               AtOptimalReference(i) =>
                   \A k \in TreeOf(vs, cs, i) :
                       cs[k].lm = SumDfdv(vs, Side(cs, k, cs[k].r))

C20_Witness ==
    /\ pc = "split"
    /\ Len(blocks) = 1
    /\ Len(blocks[1].V) = 3
    /\ AtOptimalReference(1)
    /\ \A k \in ConIds : cs[k].active /\ cs[k].lm # 0
    /\ \E k \in ConIds : blocks[1].V[1] \in Side(cs, k, cs[k].r)
    /\ \E k \in ConIds : blocks[1].V[1] \in Side(cs, k, cs[k].l)

=============================================================================
